---- MODULE Spec2Model ----
(***************************************************************************)
(* Fiindo ETL pipeline: ETLService.run fans _process_single_symbol out     *)
(* over a ThreadPoolExecutor, collects the TickerStats, bulk-saves them    *)
(* and saves one IndustryAggregation per allow-listed industry.            *)
(***************************************************************************)
EXTENDS Integers, Sequences, FiniteSets, TLC

(***************************************************************************)
(* Bounds of the model.                                                    *)
(***************************************************************************)
\* longest symbol list the upstream listing returns
MaxSymbols == 3
\* worker count of the pool (settings.ETL_MAX_WORKERS is read from the
\* environment; the model runs the pool with a small configured value)
MaxWorkers == 2
\* significand width of the modelled binary floating point (Python: 53)
MantBits == 3
\* runs of the pipeline against the same database (SpecRuns)
MaxRuns == 2

\* symbols per listing when the pipeline is run repeatedly
MaxRunSymbols == 2

\* longest list of tickers given to aggregate_industry_metrics on its own
MaxTickers == 2

\* longest list of quarters given to calculate_net_income_ttm on its own
MaxQuarters == 5

\* longest list of records given to a collection on its own
MaxRecords == 3

(***************************************************************************)
(* Python values.  A float is m * 2^e, kept canonical (m odd, or m = e = 0)*)
(* and rounded to MantBits significant bits, ties to even, as IEEE-754     *)
(* binary64 does with 53 bits.  None is a value of its own.                *)
(***************************************************************************)
NoneV == [k |-> "None", m |-> 0, e |-> 0]

IsNone(x) == x.k = "None"

RECURSIVE Pow2(_)
Pow2(n) == IF n <= 0 THEN 1 ELSE 2 * Pow2(n - 1)

RECURSIVE Canon(_, _)
Canon(m, e) ==
    IF m = 0 THEN [k |-> "float", m |-> 0, e |-> 0]
    ELSE IF m % 2 = 0 THEN Canon(m \div 2, e + 1)
    ELSE [k |-> "float", m |-> m, e |-> e]

FNeg(x) == [k |-> "float", m |-> 0 - x.m, e |-> x.e]

RECURSIVE ScaleR(_, _, _)
ScaleR(a, d, e) ==
    IF a >= d * Pow2(MantBits) THEN ScaleR(a, 2 * d, e + 1)
    ELSE IF a < d * Pow2(MantBits - 1) THEN ScaleR(2 * a, d, e - 1)
    ELSE <<a, d, e>>

\* the float nearest to a/d, a > 0, d > 0
RoundPos(a, d) ==
    CHOOSE f \in {LET q == s[1] \div s[2]
                      r == s[1] % s[2]
                      up == (2 * r > s[2]) \/ (2 * r = s[2] /\ q % 2 = 1)
                  IN  Canon(IF up THEN q + 1 ELSE q, s[3]) : s \in {ScaleR(a, d, 0)}} : TRUE

\* the float nearest to n/d, d > 0
Round(n, d) ==
    CHOOSE f \in {IF a = 0 THEN Canon(0, 0)
                  ELSE IF a > 0 THEN RoundPos(a, b)
                  ELSE FNeg(RoundPos(0 - a, b)) : a \in {n}, b \in {d}} : TRUE

\* a JSON number read as a Python float
Num(i) == Round(i, 1)

Zero == Num(0)

IsZero(x) == x.k = "float" /\ x.m = 0

Min2(a, b) == IF a <= b THEN a ELSE b

\* float + float
FAdd(x, y) ==
    CHOOSE f \in {LET e0 == Min2(a.e, b.e)
                      n == a.m * Pow2(a.e - e0) + b.m * Pow2(b.e - e0)
                  IN  IF e0 >= 0 THEN Round(n * Pow2(e0), 1) ELSE Round(n, Pow2(0 - e0)) :
                  a \in {x}, b \in {y}} : TRUE

\* float - float
FSub(x, y) == FAdd(x, FNeg(y))

\* float / float, y nonzero
FDiv(x, y) ==
    CHOOSE f \in {LET n == IF b.m > 0 THEN a.m ELSE 0 - a.m
                      d == IF b.m > 0 THEN b.m ELSE 0 - b.m
                      ex == a.e - b.e
                  IN  IF ex >= 0 THEN Round(n * Pow2(ex), d) ELSE Round(n, d * Pow2(0 - ex)) :
                  a \in {x}, b \in {y}} : TRUE

(***************************************************************************)
(* Outcome of a Python expression: a value, or a raised exception.         *)
(***************************************************************************)
Ok(v) == [ok |-> TRUE, v |-> v, exc |-> "none"]

Raise(kind) == [ok |-> FALSE, v |-> NoneV, exc |-> kind]

\* sum(xs) of a list of floats and Nones, starting from the int 0
RECURSIVE PySumFrom(_, _)
PySumFrom(acc, xs) ==
    IF xs = <<>> THEN Ok(acc)
    ELSE IF IsNone(Head(xs)) THEN Raise("TypeError")
    ELSE PySumFrom(FAdd(acc, Head(xs)), Tail(xs))

PySum(xs) == PySumFrom(Zero, xs)

(***************************************************************************)
(* CalculationService                                                      *)
(***************************************************************************)
calculate_pe_ratio(price, eps) ==
    IF IsZero(eps) \/ IsNone(eps) THEN Ok(NoneV)
    ELSE IF IsNone(price) THEN Raise("TypeError")
    ELSE Ok(FDiv(price, eps))

calculate_revenue_growth(current_revenue, previous_revenue) ==
    IF IsZero(previous_revenue) \/ IsNone(previous_revenue) THEN Ok(NoneV)
    ELSE IF IsNone(current_revenue) THEN Raise("TypeError")
    ELSE Ok(FDiv(FSub(current_revenue, previous_revenue), previous_revenue))

\* a list argument, which may also be None
PyList(items) == [k |-> "list", items |-> items]

\* a partial sum: the first three quarters alone
SumOfThree(last_4_quarters) ==
    IF IsNone(last_4_quarters) \/ Len(last_4_quarters.items) < 3 THEN Ok(NoneV)
    ELSE PySum(SubSeq(last_4_quarters.items, 1, 3))

calculate_net_income_ttm(last_4_quarters) ==
    IF IsNone(last_4_quarters) \/ Len(last_4_quarters.items) = 0
       \/ Len(last_4_quarters.items) # 4
    THEN Ok(NoneV)
    ELSE PySum(last_4_quarters.items)

calculate_debt_ratio(total_debt, total_equity) ==
    IF IsZero(total_equity) \/ IsNone(total_equity) THEN Ok(NoneV)
    ELSE IF IsNone(total_debt) THEN Raise("TypeError")
    ELSE Ok(FDiv(total_debt, total_equity))

\* a filter that keeps the None values
KeepNone(xs) == xs

\* [x for x in xs if x is not None]
RECURSIVE NonNone(_)
NonNone(xs) ==
    IF xs = <<>> THEN <<>>
    ELSE IF IsNone(Head(xs)) THEN NonNone(Tail(xs))
    ELSE <<Head(xs)>> \o NonNone(Tail(xs))

\* [x or 0 for x in xs]
OrZero(xs) == [i \in 1..Len(xs) |-> IF IsNone(xs[i]) THEN Zero ELSE xs[i]]

\* sum(vals)/len(vals) if vals else None
MeanOrNone(vals) ==
    IF vals = <<>> THEN NoneV ELSE FDiv(PySum(vals).v, Num(Len(vals)))

aggregate_industry_metrics(tickers) ==
    IF Len(tickers) = 0
    THEN [avg_pe_ratio |-> NoneV, avg_revenue_growth |-> NoneV, total_revenue |-> NoneV]
    ELSE LET pe_values == NonNone([i \in 1..Len(tickers) |-> tickers[i].pe_ratio])
             rev_values == NonNone([i \in 1..Len(tickers) |-> tickers[i].revenue_growth_qoq])
             revenue_sum == PySum(OrZero([i \in 1..Len(tickers) |-> tickers[i].net_income_ttm])).v
         IN  [avg_pe_ratio |-> MeanOrNone(pe_values),
              avg_revenue_growth |-> MeanOrNone(rev_values),
              total_revenue |-> revenue_sum]

(***************************************************************************)
(* JSON values as the client hands them on (response.json()).              *)
(***************************************************************************)
JNull == [t |-> "null"]

JStr(s) == [t |-> "str", s |-> s]

\* a JSON string holding an ISO date; d is the day it denotes
JDate(d) == [t |-> "str", s |-> "date", d |-> d]

\* a JSON string holding a year; i is int() of it
JYear(i) == [t |-> "str", s |-> "year", i |-> i]

JNum(i) == [t |-> "num", x |-> Num(i)]

JList(items) == [t |-> "list", items |-> items]

JObj(f) == [t |-> "dict", f |-> f]

EmptyObj == JObj(<<>>)

\* v.get(key, default)
Get(v, key, default) ==
    IF v.t # "dict" THEN Raise("AttributeError")
    ELSE IF key \in DOMAIN v.f THEN Ok(v.f[key]) ELSE Ok(default)

\* v[key] for a string key
Index(v, key) ==
    IF v.t = "dict"
    THEN IF key \in DOMAIN v.f THEN Ok(v.f[key]) ELSE Raise("KeyError")
    ELSE Raise("TypeError")

\* v[0]
Index0(v) ==
    CASE v.t = "list" -> IF Len(v.items) > 0 THEN Ok(v.items[1]) ELSE Raise("IndexError")
      [] v.t = "dict" -> Raise("KeyError")
      [] v.t = "str" -> IF v.s # "" THEN Ok(JStr("c")) ELSE Raise("IndexError")
      [] OTHER -> Raise("TypeError")

\* the elements a for-loop over v visits
Iterate(v) ==
    CASE v.t = "list" -> Ok(v.items)
      [] v.t = "dict" -> Ok([i \in 1..Cardinality(DOMAIN v.f) |-> JStr("key")])
      [] v.t = "str" -> Ok(IF v.s = "" THEN <<>> ELSE <<JStr("c")>>)
      [] OTHER -> Raise("TypeError")

(***************************************************************************)
(* Sequencing of Python statements: the first exception ends the block.    *)
(***************************************************************************)
\* r, then F on its value (r is evaluated once and bound to x)
Then(r, F(_)) == CHOOSE y \in {IF x.ok THEN F(x.v) ELSE x : x \in {r}} : TRUE

\* the first exception among the outcomes rs, in evaluation order
RECURSIVE FirstExc(_)
FirstExc(rs) ==
    IF rs = <<>> THEN "none"
    ELSE IF ~Head(rs).ok THEN Head(rs).exc ELSE FirstExc(Tail(rs))

\* the expressions rs evaluated in order, then F on their values
AllThen(rs, F(_)) ==
    CHOOSE y \in {IF FirstExc(x) # "none" THEN Raise(FirstExc(x))
                  ELSE F([i \in 1..Len(x) |-> x[i].v]) : x \in {rs}} : TRUE

(***************************************************************************)
(* pydantic field coercion                                                 *)
(***************************************************************************)
\* Optional[float]
AsOptFloat(v) ==
    CASE v.t = "null" -> Ok(NoneV)
      [] v.t = "num" -> Ok(v.x)
      [] OTHER -> Raise("ValidationError")

\* str
AsStr(v) == IF v.t = "str" THEN Ok(v.s) ELSE Raise("ValidationError")

\* date
AsDate(v) ==
    IF v.t = "str" /\ "d" \in DOMAIN v THEN Ok(v.d) ELSE Raise("ValidationError")

\* int(v)
AsInt(v) ==
    CASE v.t = "str" -> IF "i" \in DOMAIN v THEN Ok(v.i) ELSE Raise("ValueError")
      [] v.t = "num" -> Ok(v.x)
      [] OTHER -> Raise("TypeError")

\* period.startswith("Q") on the period labels the upstream uses
StartsWithQ(period) == period \in {"Q", "Q1", "Q2", "Q3", "Q4"}

(***************************************************************************)
(* sorted(items, key=..., reverse=True): stable, newest first              *)
(***************************************************************************)
RECURSIVE InsertIdx(_, _, _)
InsertIdx(s, i, keys) ==
    IF s = <<>> THEN <<i>>
    ELSE IF keys[Head(s)] >= keys[i] THEN <<Head(s)>> \o InsertIdx(Tail(s), i, keys)
    ELSE <<i>> \o s

RECURSIVE SortIdx(_, _)
SortIdx(n, keys) == IF n = 0 THEN <<>> ELSE InsertIdx(SortIdx(n - 1, keys), n, keys)

Permuted(xs, p) == [j \in 1..Len(xs) |-> xs[p[j]]]

\* a collection that keeps the order it was given
AsGiven(xs, keys) == xs

SortedDesc(xs, keys) == Permuted(xs, SortIdx(Len(xs), keys))

\* [x for x in xs if x.period.startswith("Q")]
RECURSIVE Quarters(_)
Quarters(xs) ==
    IF xs = <<>> THEN <<>>
    ELSE IF StartsWithQ(Head(xs).period) THEN <<Head(xs)>> \o Quarters(Tail(xs))
    ELSE Quarters(Tail(xs))

\* next((i for i in xs if i.period == "FY"), None)
RECURSIVE FirstFY(_)
FirstFY(xs) ==
    IF xs = <<>> THEN NoneV
    ELSE IF Head(xs).period = "FY" THEN Head(xs) ELSE FirstFY(Tail(xs))

HeadOrNone(xs) == IF xs = <<>> THEN NoneV ELSE Head(xs)

SecondOrNone(xs) == IF Len(xs) > 1 THEN xs[2] ELSE NoneV

(***************************************************************************)
(* schemas/income_statement.py                                             *)
(***************************************************************************)
ValidIncomeStatement(f) ==
    Ok([k |-> "IncomeStatementSchema", symbol |-> f[1], period |-> f[2],
        period_end |-> f[3], calendar_year |-> f[4], revenue |-> f[5],
        net_income |-> f[6], eps |-> f[7]])

IncomeStatementFields(a) ==
    AllThen(<<AsStr(a[1]), AsStr(a[2]), AsDate(a[3]), Ok(a[4]), AsOptFloat(a[5]),
              AsOptFloat(a[6]), AsOptFloat(a[7])>>, ValidIncomeStatement)

IncomeStatementSchema(item) ==
    AllThen(<<Index(item, "symbol"), Index(item, "period"), Index(item, "date"),
              Then(Index(item, "calendarYear"), AsInt), Get(item, "revenue", JNull),
              Get(item, "netIncome", JNull), Get(item, "eps", JNull)>>,
            IncomeStatementFields)

PeriodEnds(items) == [i \in 1..Len(items) |-> items[i].period_end]

IncomeStatementCollection(items) == SortedDesc(items, PeriodEnds(items))

\* both collections' latest_quarter
latest_quarter(items) == HeadOrNone(Quarters(items))

previous_quarter(items) == SecondOrNone(Quarters(items))

FirstN(xs, n) == SubSeq(xs, 1, Min2(n, Len(xs)))

last_n_quarters(items, n) == FirstN(Quarters(items), n)

\* both collections' latest_year
latest_year(items) == FirstFY(items)

IncomeItems(items) ==
    AllThen([i \in 1..Len(items) |-> IncomeStatementSchema(items[i])],
            LAMBDA schemas : Ok(IncomeStatementCollection(schemas)))

parse_income_statements(api_response) ==
    Then(Get(api_response, "fundamentals", EmptyObj), LAMBDA a :
    Then(Get(a, "financials", EmptyObj), LAMBDA b :
    Then(Get(b, "income_statement", EmptyObj), LAMBDA c :
    Then(Get(c, "data", JList(<<>>)), LAMBDA data :
    Then(Iterate(data), IncomeItems)))))

(***************************************************************************)
(* schemas/balance_sheet.py                                                *)
(***************************************************************************)
ValidBalanceSheet(f) ==
    Ok([k |-> "BalanceSheetSchema", symbol |-> f[1], period |-> f[2],
        period_end |-> f[3], calendar_year |-> f[4], total_debt |-> f[5],
        total_equity |-> f[6]])

\* total_assets and total_liabilities are no fields of the schema: ignored
BalanceSheetFields(a) ==
    AllThen(<<AsStr(a[1]), AsStr(a[2]), AsDate(a[3]), Ok(a[4]), AsOptFloat(a[8]),
              AsOptFloat(a[7])>>, ValidBalanceSheet)

BalanceSheetSchema(item) ==
    AllThen(<<Index(item, "symbol"), Index(item, "period"), Index(item, "date"),
              Then(Index(item, "calendarYear"), AsInt), Get(item, "totalAssets", JNull),
              Get(item, "totalLiabilities", JNull), Get(item, "totalEquity", JNull),
              Get(item, "totalDebt", JNull)>>,
            BalanceSheetFields)

BalanceSheetCollection(items) == SortedDesc(items, PeriodEnds(items))

BalanceItems(items) ==
    AllThen([i \in 1..Len(items) |-> BalanceSheetSchema(items[i])],
            LAMBDA schemas : Ok(BalanceSheetCollection(schemas)))

parse_balance_sheets(api_response) ==
    Then(Get(api_response, "fundamentals", EmptyObj), LAMBDA a :
    Then(Get(a, "financials", EmptyObj), LAMBDA b :
    Then(Get(b, "balance_sheet_statement", EmptyObj), LAMBDA c :
    Then(Get(c, "data", JList(<<>>)), LAMBDA data :
    Then(Iterate(data), BalanceItems)))))

(***************************************************************************)
(* schemas/eod.py                                                          *)
(***************************************************************************)
ValidEODPrice(symbol, f) ==
    Ok([k |-> "EODPriceSchema", symbol |-> symbol, date |-> f[1], open |-> f[2],
        high |-> f[3], low |-> f[4], close |-> f[5], volume |-> f[6]])

EODPriceFields(symbol, a) ==
    AllThen(<<AsDate(a[1]), AsOptFloat(a[2]), AsOptFloat(a[3]), AsOptFloat(a[4]),
              AsOptFloat(a[5]), AsOptFloat(a[6])>>, LAMBDA f : ValidEODPrice(symbol, f))

EODPriceSchema(symbol, item) ==
    AllThen(<<Index(item, "date"), Get(item, "open", JNull), Get(item, "high", JNull),
              Get(item, "low", JNull), Get(item, "close", JNull),
              Get(item, "volume", JNull)>>,
            LAMBDA a : EODPriceFields(symbol, a))

Dates(items) == [i \in 1..Len(items) |-> items[i].date]

EODPriceCollection(items) == SortedDesc(items, Dates(items))

latest(items) == IF Len(items) > 0 THEN items[1] ELSE NoneV

CloseOrNone(price) == IF IsNone(price) THEN NoneV ELSE price.close

latest_close(items) == CloseOrNone(latest(items))

EodItems(symbol, items) ==
    AllThen([i \in 1..Len(items) |-> EODPriceSchema(symbol, items[i])],
            LAMBDA schemas : Ok(EODPriceCollection(schemas)))

parse_eod_prices(symbol, api_response) ==
    Then(Get(api_response, "stockprice", EmptyObj), LAMBDA a :
    Then(Get(a, "data", EmptyObj), LAMBDA data :
    Then(Iterate(data), LAMBDA items : EodItems(symbol, items))))

(***************************************************************************)
(* The upstream API as the client sees it.  Every symbol has its own       *)
(* profile and series; run is the number of the pipeline run asking, so    *)
(* that prices move between runs.                                          *)
(***************************************************************************)
GeneralPayload(industry) ==
    JObj([fundamentals |-> JObj([profile |-> JObj([data |->
        JList(<<JObj([industry |-> industry])>>)])])])

IncomeItem(symbol, period, day, revenue, net_income, eps) ==
    JObj([symbol |-> JStr(symbol), period |-> JStr(period), date |-> JDate(day),
          calendarYear |-> JYear(2025), revenue |-> revenue, netIncome |-> net_income,
          eps |-> eps])

IncomePayload(items) ==
    JObj([fundamentals |-> JObj([financials |-> JObj([income_statement |->
        JObj([data |-> JList(items)])])])])

BalanceItem(symbol, period, day, debt, equity) ==
    JObj([symbol |-> JStr(symbol), period |-> JStr(period), date |-> JDate(day),
          calendarYear |-> JYear(2025), totalDebt |-> debt, totalEquity |-> equity])

BalancePayload(items) ==
    JObj([fundamentals |-> JObj([financials |-> JObj([balance_sheet_statement |->
        JObj([data |-> JList(items)])])])])

EodPayload(items) == JObj([stockprice |-> JObj([data |-> JList(items)])])

EodItem(day, close) == JObj([date |-> JDate(day), close |-> close])

\* four quarters and the year, oldest first, as the API lists them; the first
\* quarter's net income differs between companies (TTM 5, 1 and 4)
FullIncome(symbol, eps) ==
    IncomePayload(<<IncomeItem(symbol, "Q1", 10, JNum(2),
                               JNum(IF symbol = "SOFT3" THEN 2
                                    ELSE IF symbol = "BANK" THEN 0 - 2 ELSE 1), JNum(1)),
                    IncomeItem(symbol, "Q2", 20, JNum(3), JNum(-1), JNum(1)),
                    IncomeItem(symbol, "Q3", 30, JNum(4), JNum(2), JNum(1)),
                    IncomeItem(symbol, "FY", 35, JNum(12), JNum(4), JNum(4)),
                    IncomeItem(symbol, "Q4", 40, JNum(6), JNum(2), eps)>>)

FullBalance(symbol) ==
    BalancePayload(<<BalanceItem(symbol, "FY", 5, JNum(7), JNum(7)),
                     BalanceItem(symbol, "Q4", 40, JNum(1), JNum(1)),
                     BalanceItem(symbol, "FY", 35, JNum(2), JNum(4))>>)

Prices(close) == EodPayload(<<EodItem(39, JNum(5)), EodItem(40, close)>>)

ApiError == Raise("FiindoClientError")

\* GET /api/v1/general/{symbol}
GeneralResponse(symbol, run) ==
    CASE symbol \in {"SOFT1", "SOFT2", "SOFT3"} -> Ok(GeneralPayload(JStr("Software - Application")))
      [] symbol = "BANK" -> Ok(GeneralPayload(JStr("Banks - Diversified")))
      [] symbol \in {"NOQ", "FINERR"} -> Ok(GeneralPayload(JStr("Consumer Electronics")))
      [] symbol = "FORB" -> Ok(GeneralPayload(JStr("Forbidden Industry")))
      [] symbol = "LOWER" -> Ok(GeneralPayload(JStr("software - application")))
      [] symbol = "NOIND" -> Ok(JObj([fundamentals |-> EmptyObj]))
      [] OTHER -> ApiError

\* GET /api/v1/financials/{symbol}/income_statement
IncomeResponse(symbol, run) ==
    CASE symbol = "SOFT2" ->
            Ok(IncomePayload(<<IncomeItem(symbol, "Q4", 40, JNum(3), JNull, JNum(1)),
                               IncomeItem(symbol, "Q3", 30, JNum(0), JNum(1), JNum(1))>>))
      [] symbol = "BANK" -> Ok(FullIncome(symbol, JNum(0)))
      [] symbol = "NOQ" -> Ok(EmptyObj)
      [] symbol = "ERR" -> ApiError
      [] OTHER -> Ok(FullIncome(symbol, JNum(1)))

\* GET /api/v1/financials/{symbol}/balance_sheet_statement
BalanceResponse(symbol, run) ==
    CASE symbol = "SOFT2" ->
            Ok(BalancePayload(<<BalanceItem(symbol, "FY", 35, JNum(2), JNum(0))>>))
      [] symbol \in {"FINERR", "ERR"} -> ApiError
      [] OTHER -> Ok(FullBalance(symbol))

\* GET /api/v1/eod/{symbol}
EodResponse(symbol, run) ==
    CASE symbol = "SOFT1" -> Ok(Prices(IF run = 1 THEN JNum(8) ELSE JNum(4)))
      [] symbol \in {"SOFT2", "SOFT3"} -> Ok(Prices(JNum(1)))
      [] symbol = "BANK" -> Ok(EodPayload(<<>>))
      [] symbol = "ERR" -> ApiError
      [] OTHER -> Ok(Prices(JNum(2)))

\* the symbols the upstream knows
Universe == {"SOFT1", "SOFT2", "SOFT3", "BANK", "NOQ", "FINERR", "FORB", "LOWER", "NOIND", "ERR"}

(***************************************************************************)
(* clients/fiindo_client.py, as the pipeline uses it                       *)
(***************************************************************************)
VALID_STATEMENTS == {"income_statement", "balance_sheet_statement", "cash_flow_statement"}

get_general(symbol, run) == GeneralResponse(symbol, run)

get_eod(symbol, run) == EodResponse(symbol, run)

get_financials(symbol, statement, run) ==
    IF statement \notin VALID_STATEMENTS THEN Raise("ValueError")
    ELSE IF statement = "income_statement" THEN IncomeResponse(symbol, run)
    ELSE IF statement = "balance_sheet_statement" THEN BalanceResponse(symbol, run)
    ELSE Ok(EmptyObj)

\* The same operations against one HTTP exchange.  response is what
\* session.get comes back with: a status and a body, the body a JSON value or
\* text that is no JSON; status 0 stands for no response at all (the
\* transport raised).  requests counts the calls of session.get.
Sent(r, n) == [ok |-> r.ok, v |-> r.v, exc |-> r.exc, requests |-> n]

\* _get: response.ok is False from status 400 on
client_get(response) ==
    IF response.status = 0 THEN Sent(Raise("ConnectionError"), 1)
    ELSE IF response.status >= 400 THEN Sent(ApiError, 1)
    ELSE IF response.body.t = "unparseable" THEN Sent(ApiError, 1)
    ELSE Sent(Ok(response.body), 1)

get_symbols_from(response) ==
    LET data == client_get(response) IN
    IF ~data.ok THEN data
    ELSE IF data.v.t # "dict" THEN Sent(ApiError, data.requests)
    ELSE IF Get(data.v, "symbols", JNull).v.t # "list" THEN Sent(ApiError, data.requests)
    ELSE Sent(Get(data.v, "symbols", JNull), data.requests)

get_general_from(response) ==
    LET data == client_get(response) IN
    IF data.ok /\ data.v.t # "dict" THEN Sent(ApiError, data.requests) ELSE data

get_eod_from(response) ==
    LET data == client_get(response) IN
    IF data.ok /\ data.v.t # "dict" THEN Sent(ApiError, data.requests) ELSE data

\* a client that asks first and looks at the statement afterwards
FetchThenValidate(statement, response) ==
    IF statement \notin VALID_STATEMENTS
    THEN Sent(Raise("ValueError"), client_get(response).requests)
    ELSE get_general_from(response)

get_financials_from(statement, response) ==
    LET data == client_get(response) IN
    IF statement \notin VALID_STATEMENTS THEN Sent(Raise("ValueError"), 0)
    ELSE IF data.ok /\ data.v.t # "dict" THEN Sent(ApiError, data.requests)
    ELSE data

\* A worker's local income_raw, balance_raw and eod_raw name the response they
\* hold (which call of which run answered); Body is the JSON it carried.
Held(endpoint, symbol, run) == [endpoint |-> endpoint, symbol |-> symbol, run |-> run]

Unset == Held("none", "", 0)

Body(held) ==
    CASE held.endpoint = "income_statement" -> IncomeResponse(held.symbol, held.run).v
      [] held.endpoint = "balance_sheet_statement" -> BalanceResponse(held.symbol, held.run).v
      [] held.endpoint = "eod" -> EodResponse(held.symbol, held.run).v
      [] OTHER -> JNull

(***************************************************************************)
(* services/etl.py: the per-symbol pipeline                                *)
(***************************************************************************)
MAX_WORKERS == MaxWorkers

\* an allow-list that names one industry twice
RepeatedIndustries ==
    <<"Banks - Diversified", "Software - Application", "Software - Application">>

ALLOWED_INDUSTRIES ==
    <<"Banks - Diversified", "Software - Application", "Consumer Electronics">>

\* a handler that names KeyError alone
OnlyKeyError(r) ==
    IF ~r.ok /\ r.exc = "KeyError" THEN Ok(JNull) ELSE r

\* except (KeyError, IndexError, TypeError): return None
LookupFailed(r) ==
    IF ~r.ok /\ r.exc \in {"KeyError", "IndexError", "TypeError"} THEN Ok(JNull) ELSE r

\* general["fundamentals"]["profile"]["data"][0]["industry"]
extract_industry(general) ==
    LookupFailed(
        Then(Index(general, "fundamentals"), LAMBDA a :
        Then(Index(a, "profile"), LAMBDA b :
        Then(Index(b, "data"), LAMBDA c :
        Then(Index0(c), LAMBDA d : Index(d, "industry"))))))

\* str.lower on the industry names in use
CaseFold(s) ==
    CASE s = "Banks - Diversified" -> "banks - diversified"
      [] s = "Software - Application" -> "software - application"
      [] s = "Consumer Electronics" -> "consumer electronics"
      [] OTHER -> s

\* a filter that lets every classified symbol through
AnyIndustryAllowed(industry) == industry.t = "str"

\* a filter that compares without regard to case
IndustryAllowedIgnoringCase(industry) ==
    /\ industry.t = "str"
    /\ \E i \in 1..Len(ALLOWED_INDUSTRIES) :
           CaseFold(ALLOWED_INDUSTRIES[i]) = CaseFold(industry.s)

\* industry in self.ALLOWED_INDUSTRIES
IndustryAllowed(industry) ==
    /\ industry.t = "str"
    /\ \E i \in 1..Len(ALLOWED_INDUSTRIES) : ALLOWED_INDUSTRIES[i] = industry.s

TickerStats(symbol, industry, period_end, pe_ratio, revenue_growth, net_income_ttm, debt_ratio) ==
    [k |-> "TickerStats", symbol |-> symbol, industry |-> industry,
     period_end |-> period_end, pe_ratio |-> pe_ratio,
     revenue_growth_qoq |-> revenue_growth, net_income_ttm |-> net_income_ttm,
     debt_ratio |-> debt_ratio]

\* attribute access that answers None for None
NullSafeAttr(obj, name) == IF IsNone(obj) THEN Ok(NoneV) ELSE Ok(obj[name])

\* obj.name on a value that may be None
Attr(obj, name) == IF IsNone(obj) THEN Raise("AttributeError") ELSE Ok(obj[name])

NetIncomes(quarters) == [i \in 1..Len(quarters) |-> quarters[i].net_income]

\* steps 5 and 6 of _process_single_symbol: the four ratios, the TickerStats
Ratios(symbol, industry, last_q, prev_q, last_4_q, last_year_balance, latest_price) ==
    AllThen(<<Then(Attr(last_q, "eps"), LAMBDA eps : calculate_pe_ratio(latest_price, eps)),
              AllThen(<<Attr(last_q, "revenue"), Attr(prev_q, "revenue")>>,
                      LAMBDA a : calculate_revenue_growth(a[1], a[2])),
              calculate_net_income_ttm(PyList(NetIncomes(last_4_q))),
              AllThen(<<Attr(last_year_balance, "total_debt"),
                        Attr(last_year_balance, "total_equity")>>,
                      LAMBDA a : calculate_debt_ratio(a[1], a[2])),
              Attr(last_q, "period_end")>>,
            LAMBDA r : Ok(TickerStats(symbol, industry.s, r[5], r[1], r[2], r[3], r[4])))

\* step 4: the data points the ratios are computed from
DataPoints(symbol, industry, income_q, balance_fy, eod_prices) ==
    Ratios(symbol, industry, latest_quarter(income_q), previous_quarter(income_q),
           last_n_quarters(income_q, 4), latest_year(balance_fy), latest_close(eod_prices))

\* steps 3 to 6: normalise the three payloads, then the above
ComputeStats(symbol, industry, income_raw, balance_raw, eod_raw) ==
    AllThen(<<parse_income_statements(income_raw), parse_balance_sheets(balance_raw),
              parse_eod_prices(symbol, eod_raw)>>,
            LAMBDA n : DataPoints(symbol, industry, n[1], n[2], n[3]))

\* a handler that logs and raises again
Reraise(exc) == Raise(exc)

\* the except clauses of _process_single_symbol: log, fall through to return None
HandleException(exc) == Ok(NoneV)

\* try: ... except FiindoClientError / except Exception
Try(r) == IF r.ok THEN r ELSE HandleException(r.exc)

\* the level the exception is logged at
LogLevel(exc) == IF exc = "FiindoClientError" THEN "warning" ELSE "error"

\* _process_single_symbol run from start to end for one symbol
process_single_symbol(symbol, run) ==
    Try(Then(get_general(symbol, run), LAMBDA general :
        Then(extract_industry(general), LAMBDA industry :
        IF ~IndustryAllowed(industry) THEN Ok(NoneV)
        ELSE Then(get_financials(symbol, "income_statement", run), LAMBDA income_raw :
             Then(get_financials(symbol, "balance_sheet_statement", run), LAMBDA balance_raw :
             Then(get_eod(symbol, run), LAMBDA eod_raw :
             ComputeStats(symbol, industry, income_raw, balance_raw, eod_raw)))))))

(***************************************************************************)
(* models/ and repositories/: the two tables, rows in rowid order          *)
(***************************************************************************)
IndustryAggregation(industry, avg_pe_ratio, avg_revenue_growth, total_revenue) ==
    [k |-> "IndustryAggregation", industry |-> industry, avg_pe_ratio |-> avg_pe_ratio,
     avg_revenue_growth |-> avg_revenue_growth, total_revenue |-> total_revenue]

\* the row an INSERT of obj makes: the next id, created_at = now()
InsertedRow(obj, id, now) ==
    [f \in DOMAIN obj \cup {"id", "created_at"} |->
        IF f = "id" THEN id ELSE IF f = "created_at" THEN now ELSE obj[f]]

\* TickerRepository.save
ticker_save(table, ticker, now) == Append(table, InsertedRow(ticker, Len(table) + 1, now))

\* TickerRepository.bulk_save
bulk_save(table, tickers, now) ==
    IF Len(tickers) = 0 THEN table
    ELSE table \o [i \in 1..Len(tickers) |-> InsertedRow(tickers[i], Len(table) + i, now)]

\* IndustryRepository.save
industry_save(table, industry, now) ==
    Append(table, InsertedRow(industry, Len(table) + 1, now))

\* query(...).filter(column == value).first(): the first matching row, or None
RECURSIVE FirstWhere(_, _, _)
FirstWhere(table, column, value) ==
    IF table = <<>> THEN NoneV
    ELSE IF Head(table)[column] = value THEN Head(table)
    ELSE FirstWhere(Tail(table), column, value)

\* IndustryRepository.get_by_industry
get_by_industry(table, industry) == FirstWhere(table, "industry", industry)

\* TickerRepository.get_by_symbol
get_by_symbol(table, symbol) == FirstWhere(table, "symbol", symbol)

(***************************************************************************)
(* State                                                                   *)
(***************************************************************************)
VARIABLES
    pc,                     \* where ETLService.run is
    run,                    \* number of this run of the pipeline
    listing,                \* what get_symbols answers in this run
    symbols,                \* run's local symbols
    task,                   \* the futures, by position in symbols
    tickers_for_processing, \* run's local list of collected TickerStats
    summary,                \* run's local summary dict
    aggIdx,                 \* position of the aggregation loop in ALLOWED_INDUSTRIES
    ticker_stats,           \* table ticker_stats
    industry_aggregations,  \* table industry_aggregations
    clock,                  \* the database's now()
    store0,                 \* the two tables as they were when the run started
    error,                  \* the exception run raised, "none" if none
    call,                   \* a function called on its own: its name and arguments
    ret                     \* what that call did

vars == <<pc, run, listing, symbols, task, tickers_for_processing, summary, aggIdx,
          ticker_stats, industry_aggregations, clock, store0, error, call, ret>>

Tasks == DOMAIN task

\* no function is being called on its own
NoCall == [fn |-> "none"]

\* the call has not returned yet
NoReturn == [done |-> FALSE]

NewTask ==
    [st |-> "queued", industry |-> JNull, income_raw |-> Unset, balance_raw |-> Unset,
     eod_raw |-> Unset, result |-> Ok(NoneV), exc |-> "none", collected |-> FALSE,
     calls |-> <<>>]

\* the tasks a worker thread is executing
InFlight == {i \in Tasks : task[i].st \in {"general", "income", "balance", "eod"}}

\* all lists over S of length at most n
SeqsUpTo(S, n) == UNION {[1..len -> S] : len \in 0..n}

\* what get_symbols can answer: a list of symbols, or FiindoClientError
Listings(S, n) ==
    {Ok(q) : q \in SeqsUpTo(S, n)} \cup {[ok |-> FALSE, v |-> <<>>, exc |-> "FiindoClientError"]}

InitWith(answers) ==
    /\ pc = "start"
    /\ run = 1
    /\ listing \in answers
    /\ symbols = <<>>
    /\ task = <<>>
    /\ tickers_for_processing = <<>>
    /\ summary = [tickers_processed |-> 0, industries_processed |-> 0]
    /\ aggIdx = 1
    /\ ticker_stats = <<>>
    /\ industry_aggregations = <<>>
    /\ clock = 1
    /\ store0 = [ticker_stats |-> <<>>, industry_aggregations |-> <<>>]
    /\ error = "none"
    /\ call = NoCall
    /\ ret = NoReturn

Init == InitWith(Listings(Universe, MaxSymbols))

(***************************************************************************)
(* ETLService.run                                                          *)
(***************************************************************************)
\* symbols = self.client.get_symbols()
GetSymbols ==
    /\ pc = "start"
    /\ listing.ok
    /\ symbols' = listing.v
    /\ pc' = "submit"
    /\ UNCHANGED <<call, ret, run, listing, task, tickers_for_processing, summary, aggIdx,
                   ticker_stats, industry_aggregations, clock, store0, error>>

\* a run that logs the failed listing and goes on with no symbols
ListingFailureSwallowed ==
    /\ pc = "start"
    /\ ~listing.ok
    /\ symbols' = <<>>
    /\ pc' = "submit"
    /\ UNCHANGED <<call, ret, run, listing, task, tickers_for_processing, summary, aggIdx,
                   ticker_stats, industry_aggregations, clock, store0, error>>

\* get_symbols raises: run has no handler, the error leaves run
GetSymbolsFails ==
    /\ pc = "start"
    /\ ~listing.ok
    /\ pc' = "raised"
    /\ error' = listing.exc
    /\ UNCHANGED <<call, ret, run, listing, symbols, task, tickers_for_processing, summary, aggIdx,
                   ticker_stats, industry_aggregations, clock, store0>>

\* executor.submit(self._process_single_symbol, sym) for sym in symbols
SubmitAll ==
    /\ pc = "submit"
    /\ task' = [i \in 1..Len(symbols) |-> NewTask]
    /\ pc' = "pool"
    /\ UNCHANGED <<call, ret, run, listing, symbols, tickers_for_processing, summary, aggIdx,
                   ticker_stats, industry_aggregations, clock, store0, error>>

\* a pool that starts every submitted call at once
StartUnbounded(running) == TRUE

\* a pool without a worker
NoWorker(running) == running < 0

\* every call closing over the loop variable's last value
LastSymbol(syms, i) == syms[Len(syms)]

\* ThreadPoolExecutor(max_workers=self.MAX_WORKERS): a queued call starts only
\* on a free worker
CanStart(running) == running < MAX_WORKERS

\* the symbol the i-th submitted call was given
TaskSymbol(syms, i) == syms[i]

\* a worker takes the oldest queued call
StartTask(i) ==
    /\ pc \in {"pool", "aggregate", "returned", "raised"}
    /\ task[i].st = "queued"
    /\ \A j \in 1..(i - 1) : task[j].st # "queued"
    /\ CanStart(Cardinality(InFlight))
    /\ task' = [task EXCEPT ![i].st = "general"]
    /\ UNCHANGED <<call, ret, pc, run, listing, symbols, tickers_for_processing, summary, aggIdx,
                   ticker_stats, industry_aggregations, clock, store0, error>>

\* the call in flight ends: the future is done with this outcome
Finished(t, r) ==
    [t EXCEPT !.st = "done", !.result = Try(r), !.exc = r.exc]

Called(t, name) == [t EXCEPT !.calls = Append(@, name)]

\* after get_general answered: _extract_industry and the allow-list filter
AfterGeneral(t, industry) ==
    IF ~industry.ok THEN Finished(t, industry)
    ELSE IF ~IndustryAllowed(industry.v)
         THEN Finished([t EXCEPT !.industry = industry.v], Ok(NoneV))
    ELSE [t EXCEPT !.st = "income", !.industry = industry.v]

\* step 1: get_general, _extract_industry, the allow-list filter
GetGeneralStep(t, general) ==
    IF ~general.ok THEN Finished(t, general)
    ELSE AfterGeneral(t, extract_industry(general.v))

GetGeneral(i) ==
    /\ task[i].st = "general"
    /\ task' = [task EXCEPT ![i] =
           GetGeneralStep(Called(@, "get_general"), get_general(TaskSymbol(symbols, i), run))]
    /\ UNCHANGED <<call, ret, pc, run, listing, symbols, tickers_for_processing, summary, aggIdx,
                   ticker_stats, industry_aggregations, clock, store0, error>>

FetchIncomeStep(t, r, held) ==
    IF ~r.ok THEN Finished(t, r) ELSE [t EXCEPT !.st = "balance", !.income_raw = held]

\* step 2a: get_financials(symbol, "income_statement")
FetchIncome(i) ==
    /\ task[i].st = "income"
    /\ task' = [task EXCEPT ![i] =
           FetchIncomeStep(Called(@, "get_financials"),
               get_financials(TaskSymbol(symbols, i), "income_statement", run),
               Held("income_statement", TaskSymbol(symbols, i), run))]
    /\ UNCHANGED <<call, ret, pc, run, listing, symbols, tickers_for_processing, summary, aggIdx,
                   ticker_stats, industry_aggregations, clock, store0, error>>

FetchBalanceStep(t, r, held) ==
    IF ~r.ok THEN Finished(t, r) ELSE [t EXCEPT !.st = "eod", !.balance_raw = held]

\* step 2b: get_financials(symbol, "balance_sheet_statement")
FetchBalance(i) ==
    /\ task[i].st = "balance"
    /\ task' = [task EXCEPT ![i] =
           FetchBalanceStep(Called(@, "get_financials"),
               get_financials(TaskSymbol(symbols, i), "balance_sheet_statement", run),
               Held("balance_sheet_statement", TaskSymbol(symbols, i), run))]
    /\ UNCHANGED <<call, ret, pc, run, listing, symbols, tickers_for_processing, summary, aggIdx,
                   ticker_stats, industry_aggregations, clock, store0, error>>

FetchEodStep(t, symbol, r, held) ==
    IF ~r.ok THEN Finished(t, r)
    ELSE Finished([t EXCEPT !.eod_raw = held],
                  ComputeStats(symbol, t.industry, Body(t.income_raw),
                               Body(t.balance_raw), Body(held)))

\* step 2c: get_eod, then steps 3 to 6 and the return
FetchEodAndCompute(i) ==
    /\ task[i].st = "eod"
    /\ task' = [task EXCEPT ![i] =
           FetchEodStep(Called(@, "get_eod"), TaskSymbol(symbols, i),
               get_eod(TaskSymbol(symbols, i), run),
               Held("eod", TaskSymbol(symbols, i), run))]
    /\ UNCHANGED <<call, ret, pc, run, listing, symbols, tickers_for_processing, summary, aggIdx,
                   ticker_stats, industry_aggregations, clock, store0, error>>

\* a collector that keeps every result
KeepAll(result) == TRUE

\* if result:
Truthy(result) == ~IsNone(result)

\* for future in as_completed(...): result = future.result(); keep it if truthy
Collect(i) ==
    /\ pc = "pool"
    /\ task[i].st = "done"
    /\ ~task[i].collected
    /\ task' = [task EXCEPT ![i].collected = TRUE]
    /\ IF ~task[i].result.ok
       THEN /\ pc' = "raised"
            /\ error' = task[i].result.exc
            /\ UNCHANGED <<tickers_for_processing, summary>>
       ELSE /\ UNCHANGED <<pc, error>>
            /\ IF Truthy(task[i].result.v)
               THEN /\ tickers_for_processing' =
                          Append(tickers_for_processing, task[i].result.v)
                    /\ summary' = [summary EXCEPT !.tickers_processed = @ + 1]
               ELSE UNCHANGED <<tickers_for_processing, summary>>
    /\ UNCHANGED <<call, ret, run, listing, symbols, aggIdx, ticker_stats, industry_aggregations,
                   clock, store0>>

\* going on after the first completed future
FirstCompleted(tasks) == \E i \in DOMAIN tasks : tasks[i].collected

\* as_completed is exhausted and the with block has joined the workers
FanInComplete(tasks) == \A i \in DOMAIN tasks : tasks[i].collected

\* a handler that logs the store's exception and lets run go on
LoggedAndSkipped(exc) == "aggregate"

\* run has no try around the repository calls: their exception leaves run
Uncaught(exc) == "raised"

\* self.ticker_repo.bulk_save(tickers_for_processing)
BulkSave ==
    /\ pc = "pool"
    /\ FanInComplete(task)
    /\ ticker_stats' = bulk_save(ticker_stats, tickers_for_processing, clock)
    /\ clock' = IF Len(tickers_for_processing) = 0 THEN clock ELSE clock + 1
    /\ pc' = "aggregate"
    /\ aggIdx' = 1
    /\ UNCHANGED <<call, ret, run, listing, symbols, task, tickers_for_processing, summary,
                   industry_aggregations, store0, error>>

\* the database fails the bulk insert or its commit: nothing is written
BulkSaveFails ==
    /\ pc = "pool"
    /\ FanInComplete(task)
    /\ Len(tickers_for_processing) > 0
    /\ pc' = Uncaught("SQLAlchemyError")
    /\ error' = "SQLAlchemyError"
    /\ UNCHANGED <<call, ret, run, listing, symbols, task, tickers_for_processing, summary, aggIdx,
                   ticker_stats, industry_aggregations, clock, store0>>

\* a loop that aggregates all collected tickers under every industry
AllTickers(tickers, industry) == tickers

\* [t for t in tickers_for_processing if t.industry == industry]
RECURSIVE OfIndustry(_, _)
OfIndustry(tickers, industry) ==
    IF tickers = <<>> THEN <<>>
    ELSE IF Head(tickers).industry = industry
         THEN <<Head(tickers)>> \o OfIndustry(Tail(tickers), industry)
    ELSE OfIndustry(Tail(tickers), industry)

\* a loop without the guard for empty industries
NeverSkip(industry_tickers) == FALSE

\* if not industry_tickers: continue
SkipIndustry(industry_tickers) == Len(industry_tickers) = 0

\* one iteration of for industry in self.ALLOWED_INDUSTRIES
AggregateIndustry ==
    /\ pc = "aggregate"
    /\ aggIdx <= Len(ALLOWED_INDUSTRIES)
    /\ LET industry == ALLOWED_INDUSTRIES[aggIdx]
           industry_tickers == OfIndustry(tickers_for_processing, industry)
           metrics == aggregate_industry_metrics(industry_tickers)
       IN  IF SkipIndustry(industry_tickers)
           THEN UNCHANGED <<industry_aggregations, summary, clock>>
           ELSE /\ industry_aggregations' =
                      industry_save(industry_aggregations,
                          IndustryAggregation(industry, metrics.avg_pe_ratio,
                              metrics.avg_revenue_growth, metrics.total_revenue),
                          clock)
                /\ clock' = clock + 1
                /\ summary' = [summary EXCEPT !.industries_processed = @ + 1]
    /\ aggIdx' = aggIdx + 1
    /\ UNCHANGED <<call, ret, pc, run, listing, symbols, task, tickers_for_processing, ticker_stats,
                   store0, error>>

\* a failed aggregate save that takes the run's committed rows back with it
AggregateFailsRollsBack ==
    /\ pc = "aggregate"
    /\ aggIdx <= Len(ALLOWED_INDUSTRIES)
    /\ ~SkipIndustry(OfIndustry(tickers_for_processing, ALLOWED_INDUSTRIES[aggIdx]))
    /\ pc' = Uncaught("SQLAlchemyError")
    /\ error' = "SQLAlchemyError"
    /\ ticker_stats' = store0.ticker_stats
    /\ industry_aggregations' = store0.industry_aggregations
    /\ UNCHANGED <<call, ret, run, listing, symbols, task, tickers_for_processing, summary, aggIdx,
                   clock, store0>>

\* the database fails the aggregate's insert or commit
AggregateFails ==
    /\ pc = "aggregate"
    /\ aggIdx <= Len(ALLOWED_INDUSTRIES)
    /\ ~SkipIndustry(OfIndustry(tickers_for_processing, ALLOWED_INDUSTRIES[aggIdx]))
    /\ pc' = Uncaught("SQLAlchemyError")
    /\ error' = "SQLAlchemyError"
    /\ UNCHANGED <<call, ret, run, listing, symbols, task, tickers_for_processing, summary, aggIdx,
                   ticker_stats, industry_aggregations, clock, store0>>

\* return summary
Return ==
    /\ pc = "aggregate"
    /\ aggIdx > Len(ALLOWED_INDUSTRIES)
    /\ pc' = "returned"
    /\ UNCHANGED <<call, ret, run, listing, symbols, task, tickers_for_processing, summary, aggIdx,
                   ticker_stats, industry_aggregations, clock, store0, error>>

Next ==
    \/ GetSymbols
    \/ GetSymbolsFails
    \/ SubmitAll
    \/ \E i \in Tasks : StartTask(i)
    \/ \E i \in Tasks : GetGeneral(i)
    \/ \E i \in Tasks : FetchIncome(i)
    \/ \E i \in Tasks : FetchBalance(i)
    \/ \E i \in Tasks : FetchEodAndCompute(i)
    \/ \E i \in Tasks : Collect(i)
    \/ BulkSave
    \/ BulkSaveFails
    \/ AggregateIndustry
    \/ AggregateFails
    \/ Return

Spec == Init /\ [][Next]_vars


(***************************************************************************)
(* The pipeline run again and again against the same database              *)
(***************************************************************************)
RunUniverse == {"SOFT1", "BANK", "ERR"}

InitRuns == InitWith(Listings(RunUniverse, MaxRunSymbols))

\* run has ended (returned or raised, all workers joined); main calls it again
NewRun ==
    /\ pc \in {"returned", "raised"}
    /\ \A i \in Tasks : task[i].st = "done"
    /\ run < MaxRuns
    /\ run' = run + 1
    /\ listing' \in Listings(RunUniverse, MaxRunSymbols)
    /\ pc' = "start"
    /\ symbols' = <<>>
    /\ task' = <<>>
    /\ tickers_for_processing' = <<>>
    /\ summary' = [tickers_processed |-> 0, industries_processed |-> 0]
    /\ aggIdx' = 1
    /\ store0' = [ticker_stats |-> ticker_stats,
                  industry_aggregations |-> industry_aggregations]
    /\ error' = "none"
    /\ UNCHANGED <<call, ret, ticker_stats, industry_aggregations, clock>>

NextRuns ==
    \/ Next
    \/ NewRun

\* One run under fair scheduling: the threads are scheduled and every client
\* and store call comes back, so a step that can be taken is taken in the end.
InitFair == InitWith(Listings(RunUniverse, MaxSymbols))

FairSpec == InitFair /\ [][Next]_vars /\ WF_vars(Next)

SpecRuns == InitRuns /\ [][NextRuns]_vars

(***************************************************************************)
(* A function of the program called on its own, once, with arguments drawn *)
(* from small sets                                                         *)
(***************************************************************************)
\* measurements: None, a negative number, zero, positive numbers
Measures == {NoneV, Num(0 - 2), Zero, Num(1), Num(3)}

\* JSON values that are not what a path expects: null, a string, a number,
\* an empty list, an object without the key
Junk == {JNull, JStr("x"), JNum(1), JList(<<>>), EmptyObj}

\* payloads that follow the path keys down to one of leaves, or break off
\* at some step with a value of Junk
RECURSIVE Nested(_, _)
Nested(keys, leaves) ==
    IF keys = <<>> THEN leaves
    ELSE Junk \cup {JObj(Head(keys) :> v) : v \in Nested(Tail(keys), leaves)}

\* elements of the profile data list
Profiles ==
    Junk \cup {JObj("industry" :> v) : v \in {JStr("Software - Application"),
                                               JStr("Banks - Diversified"), JNull}}

\* what the upstream may answer: no response, or a status with a body
Responses ==
    {[status |-> 0, body |-> JNull]}
    \cup {[status |-> st, body |-> b] :
              st \in {200, 300, 404, 503},
              b \in Junk \cup {[t |-> "unparseable"]}
                        \cup {JObj("symbols" :> v) :
                                  v \in {JList(<<>>), JList(<<JStr("SOFT1")>>), JNull,
                                         JStr("SOFT1")}}}

\* core/config.py: ETL_MAX_WORKERS as Settings() yields it.  env is the
\* environment's entry, an integer or unset.  Field(default=15, max_value=20):
\* max_value is no constraint of pydantic's Field (the bound keyword is le),
\* so no value is rejected for its size.
Settings(env) == IF env.set THEN Ok(env.value) ELSE Ok(15)

InitCalls ==
    /\ pc = "idle"
    /\ run = 1
    /\ listing = Ok(<<>>)
    /\ symbols = <<>>
    /\ task = <<>>
    /\ tickers_for_processing = <<>>
    /\ summary = [tickers_processed |-> 0, industries_processed |-> 0]
    /\ aggIdx = 1
    /\ ticker_stats = <<>>
    /\ industry_aggregations = <<>>
    /\ clock = 1
    /\ store0 = [ticker_stats |-> <<>>, industry_aggregations |-> <<>>]
    /\ error = "none"
    /\ ret = NoReturn
    /\ \/ call \in {[fn |-> "aggregate_industry_metrics", tickers |-> q] :
                      q \in SeqsUpTo({TickerStats("S", "Software - Application", 40,
                                                  pe, growth, ttm, NoneV) :
                                          pe \in {NoneV, Num(1), Num(3)},
                                          growth \in {NoneV, Num(1), Num(3)},
                                          ttm \in {NoneV, Zero, Num(3)}}, MaxTickers)}
       \/ call \in {[fn |-> f, a |-> a, b |-> b] :
                      f \in {"calculate_pe_ratio", "calculate_revenue_growth",
                             "calculate_debt_ratio"},
                      a \in Measures, b \in Measures}
       \/ call \in {[fn |-> "_extract_industry", general |-> g] :
                      g \in Nested(<<"fundamentals", "profile", "data">>,
                                   Junk \cup {JList(q) : q \in SeqsUpTo(Profiles, 2)})}
       \/ call \in {[fn |-> "parse_income_statements", api_response |-> p] :
                      p \in Nested(<<"fundamentals", "financials", "income_statement", "data">>,
                                   Junk \cup {JList(<<IncomeItem("S", "Q1", 10, JNum(2),
                                                                 JNum(1), JNull)>>)})}
       \/ call \in {[fn |-> "parse_balance_sheets", api_response |-> p] :
                      p \in Nested(<<"fundamentals", "financials",
                                     "balance_sheet_statement", "data">>,
                                   Junk \cup {JList(<<BalanceItem("S", "FY", 10, JNum(1),
                                                                  JNull)>>)})}
       \/ call \in {[fn |-> "parse_eod_prices", symbol |-> "S", api_response |-> p] :
                      p \in Nested(<<"stockprice", "data">>,
                                   Junk \cup {JList(<<EodItem(10, JNum(3))>>)})}
       \/ call \in {[fn |-> f, response |-> r] :
                      f \in {"get_symbols", "get_general", "get_eod"}, r \in Responses}
       \/ call \in {[fn |-> "get_financials", statement |-> st, response |-> r] :
                      st \in VALID_STATEMENTS \cup {"cash_flow", ""}, r \in Responses}
       \/ call \in {[fn |-> "Settings", env |-> e] :
                      e \in {[set |-> FALSE, value |-> 0]}
                             \cup {[set |-> TRUE, value |-> n] :
                                       n \in {1, 5, 8, 10, 11, 15, 20, 21, 100}}}
       \/ call \in {[fn |-> "_process_single_symbol", income |-> SubSeq(i, 1, n),
                       balance |-> b, eod |-> e] :
                      n \in {0, 1, 2, 4},
                      i \in {<<IncomeItem("S", "Q4", 40, revenue, net_income, eps),
                               IncomeItem("S", "Q3", 30, previous, JNum(1), JNum(1)),
                               IncomeItem("S", "Q2", 20, JNum(1), JNum(0 - 1), JNum(1)),
                               IncomeItem("S", "Q1", 10, JNum(1), JNum(2), JNum(1))>> :
                                 revenue \in {JNull, JNum(3)}, net_income \in {JNull, JNum(1)},
                                 eps \in {JNull, JNum(2)}, previous \in {JNull, JNum(2)}},
                      b \in {<<>>, <<BalanceItem("S", "Q4", 40, JNum(1), JNum(2))>>}
                             \cup {<<BalanceItem("S", "FY", 35, debt, equity)>> :
                                       debt \in {JNull, JNum(1)}, equity \in {JNull, JNum(2)}},
                      e \in {<<>>, <<EodItem(40, JNum(3))>>}}
       \/ call \in {[fn |-> "IncomeStatementCollection", items |-> q, n |-> n] :
                      q \in SeqsUpTo({[k |-> "IncomeStatementSchema", symbol |-> "S",
                                       period |-> period, period_end |-> day,
                                       calendar_year |-> 2025, revenue |-> Num(1),
                                       net_income |-> Num(1), eps |-> Num(1)] :
                                          period \in {"Q1", "FY"}, day \in 1..3}, MaxRecords),
                      n \in {0, 1, 2, 4}}
       \/ call \in {[fn |-> "EODPriceCollection", items |-> q] :
                      q \in SeqsUpTo({[k |-> "EODPriceSchema", symbol |-> "S", date |-> day,
                                       open |-> NoneV, high |-> NoneV, low |-> NoneV,
                                       close |-> close, volume |-> NoneV] :
                                          day \in 1..3, close \in {NoneV, Num(1)}}, MaxRecords)}
       \/ call \in {[fn |-> "calculate_net_income_ttm", xs |-> xs] :
                      xs \in {NoneV} \cup {PyList(q) :
                                  q \in SeqsUpTo(Measures \ {NoneV, Zero}, MaxQuarters)}}

\* the call made: the function applied to the arguments
Apply(c) ==
    CASE c.fn = "aggregate_industry_metrics" -> Ok(aggregate_industry_metrics(c.tickers))
      [] c.fn = "calculate_pe_ratio" -> calculate_pe_ratio(c.a, c.b)
      [] c.fn = "calculate_revenue_growth" -> calculate_revenue_growth(c.a, c.b)
      [] c.fn = "calculate_debt_ratio" -> calculate_debt_ratio(c.a, c.b)
      [] c.fn = "calculate_net_income_ttm" -> calculate_net_income_ttm(c.xs)
      [] c.fn = "_extract_industry" -> extract_industry(c.general)
      [] c.fn = "parse_income_statements" -> parse_income_statements(c.api_response)
      [] c.fn = "parse_balance_sheets" -> parse_balance_sheets(c.api_response)
      [] c.fn = "parse_eod_prices" -> parse_eod_prices(c.symbol, c.api_response)
      [] c.fn = "Settings" -> Settings(c.env)
      [] c.fn = "IncomeStatementCollection" ->
             Ok([items |-> IncomeStatementCollection(c.items),
                 latest_quarter |-> latest_quarter(IncomeStatementCollection(c.items)),
                 previous_quarter |-> previous_quarter(IncomeStatementCollection(c.items)),
                 last_n_quarters |-> last_n_quarters(IncomeStatementCollection(c.items), c.n),
                 latest_year |-> latest_year(IncomeStatementCollection(c.items))])
      [] c.fn = "EODPriceCollection" ->
             Ok([items |-> EODPriceCollection(c.items),
                 latest |-> latest(EODPriceCollection(c.items)),
                 latest_close |-> latest_close(EODPriceCollection(c.items))])
      [] c.fn = "_process_single_symbol" ->
             Try(ComputeStats("S", JStr("Software - Application"), IncomePayload(c.income),
                              BalancePayload(c.balance), EodPayload(c.eod)))
      [] c.fn = "get_symbols" -> get_symbols_from(c.response)
      [] c.fn = "get_general" -> get_general_from(c.response)
      [] c.fn = "get_eod" -> get_eod_from(c.response)
      [] c.fn = "get_financials" -> get_financials_from(c.statement, c.response)

\* the function runs and returns or raises
CallReturns ==
    /\ ~ret.done
    /\ call.fn # "none"
    /\ ret' = [done |-> TRUE, r |-> Apply(call)]
    /\ UNCHANGED <<pc, run, listing, symbols, task, tickers_for_processing, summary, aggIdx,
                   ticker_stats, industry_aggregations, clock, store0, error, call>>

SpecCalls == InitCalls /\ [][CallReturns]_vars

(***************************************************************************)
(* Properties                                                              *)
(***************************************************************************)
\* the allow-list as the set of its values
AllowList == {ALLOWED_INDUSTRIES[k] : k \in DOMAIN ALLOWED_INDUSTRIES}

\* the industry is a string and exactly one of the allow-listed values
Listed(industry) == industry.t = "str" /\ industry.s \in AllowList

Done(i) == task[i].st = "done"

\* the rows a table gained since the run started
NewRows(table, before) == SubSeq(table, Len(before) + 1, Len(table))

\* a row without the columns the database fills in
Payload(row) == [f \in DOMAIN row \ {"id", "created_at"} |-> row[f]]

Payloads(rows) == [i \in 1..Len(rows) |-> Payload(rows[i])]

Range(q) == {q[i] : i \in DOMAIN q}

\* C1: in every state of run, at most MAX_WORKERS calls of
\* _process_single_symbol are in flight at the same time.
C1_BoundedFanOut == Cardinality(InFlight) <= MAX_WORKERS

\* the pool is full while a submitted call still waits
C1_Witness ==
    /\ Cardinality(InFlight) = MAX_WORKERS
    /\ \E i \in Tasks : task[i].st = "queued"

\* C2: whatever the batch and the interleaving, the outcome of a symbol is the
\* outcome of processing that symbol alone, and once the fan-in is over every
\* submitted symbol has been processed.
C2_SymbolsIndependent ==
    /\ \A i \in Tasks : Done(i) => task[i].result = process_single_symbol(symbols[i], run)
    /\ pc \in {"aggregate", "returned"} =>
          /\ DOMAIN task = 1..Len(symbols)
          /\ \A i \in Tasks : Done(i) /\ task[i].collected

\* a failed symbol, a filtered one and a successful one in the same batch, the
\* successful one submitted last
C2_Witness ==
    /\ pc = "returned"
    /\ Len(symbols) = 3
    /\ task[1].exc # "none"
    /\ ~Listed(task[2].industry) /\ task[2].exc = "none"
    /\ ~IsNone(task[3].result.v)

\* what run collects from the symbols when the futures complete in the order
\* they were submitted in
RECURSIVE InSubmissionOrder(_, _)
InSubmissionOrder(syms, r) ==
    IF syms = <<>> THEN <<>>
    ELSE (IF IsNone(process_single_symbol(Head(syms), r).v) THEN <<>>
          ELSE <<process_single_symbol(Head(syms), r).v>>)
         \o InSubmissionOrder(Tail(syms), r)

AggregateOf(industry, metrics) ==
    IndustryAggregation(industry, metrics.avg_pe_ratio, metrics.avg_revenue_growth,
                        metrics.total_revenue)

\* the aggregates the industry loop saves for these tickers, from industry k on
RECURSIVE AggregatesFrom(_, _)
AggregatesFrom(tickers, k) ==
    IF k > Len(ALLOWED_INDUSTRIES) THEN <<>>
    ELSE (IF OfIndustry(tickers, ALLOWED_INDUSTRIES[k]) = <<>> THEN <<>>
          ELSE <<AggregateOf(ALLOWED_INDUSTRIES[k],
                     aggregate_industry_metrics(OfIndustry(tickers, ALLOWED_INDUSTRIES[k])))>>)
         \o AggregatesFrom(tickers, k + 1)

SameOutcome(tickers) ==
    /\ Range(Payloads(NewRows(ticker_stats, store0.ticker_stats))) = Range(tickers)
    /\ Payloads(NewRows(industry_aggregations, store0.industry_aggregations))
           = AggregatesFrom(tickers, 1)
    /\ summary = [tickers_processed |-> Len(tickers),
                  industries_processed |-> Len(AggregatesFrom(tickers, 1))]

Distinct(q) == \A a, b \in DOMAIN q : q[a] = q[b] => a = b

\* C3: for a fixed set of symbols with fixed outcomes, every completion order
\* of the workers ends with the same set of persisted ticker rows, the same
\* industry-aggregate rows with the same metric values and the same summary:
\* those of the run whose futures complete in submission order.
C3_CompletionOrderIndependent ==
    (pc = "returned" /\ Distinct(symbols)) => SameOutcome(InSubmissionOrder(symbols, run))

\* C4: _process_single_symbol never raises to its caller; whatever exception a
\* client call, a normalisation or a ratio raises, it returns None and the
\* symbol contributes no TickerStats.
C4_NeverRaises ==
    /\ \A i \in Tasks :
          Done(i) => /\ task[i].result.ok
                     /\ task[i].exc # "none" => IsNone(task[i].result.v)
    /\ \A i \in Tasks :
          (Done(i) /\ task[i].exc # "none") =>
              \A k \in DOMAIN tickers_for_processing :
                  tickers_for_processing[k].symbol # symbols[i]

\* an upstream failure and a fault in the computation, both swallowed, and run
\* went on to return
C4_Witness ==
    /\ pc = "returned"
    /\ \E i, j \in Tasks :
          /\ task[i].exc = "FiindoClientError" /\ IsNone(task[i].result.v)
          /\ task[j].exc = "AttributeError" /\ IsNone(task[j].result.v)

Fetches(calls) == {k \in DOMAIN calls : calls[k] \in {"get_financials", "get_eod"}}

\* C5: a symbol whose extracted industry is None or not in the allow-list gets
\* None and no get_financials or get_eod call; every such call for a symbol
\* comes after its industry check has passed.
C5_NoFetchUnlessAllowed ==
    \A i \in Tasks :
        /\ Fetches(task[i].calls) # {} =>
               Listed(task[i].industry) /\ task[i].calls[1] = "get_general"
        /\ (Done(i) /\ ~Listed(task[i].industry)) =>
               IsNone(task[i].result.v) /\ task[i].calls = <<"get_general">>

\* a symbol with an industry outside the list and one without industry, both
\* finished after the profile call alone, beside one that was fetched for
C5_Witness ==
    \E i, j, k \in Tasks :
        /\ Done(i) /\ task[i].industry.t = "str" /\ ~Listed(task[i].industry)
        /\ Done(j) /\ task[j].industry.t = "null" /\ task[j].exc = "none"
        /\ Fetches(task[k].calls) # {}

\* C6: every TickerStats returned by _process_single_symbol, collected by run
\* or persisted has an industry that is exactly one of the allow-listed values.
C6_IndustryInAllowList ==
    /\ \A i \in Tasks :
          (Done(i) /\ ~IsNone(task[i].result.v)) => task[i].result.v.industry \in AllowList
    /\ \A k \in DOMAIN tickers_for_processing :
          tickers_for_processing[k].industry \in AllowList
    /\ \A k \in DOMAIN ticker_stats : ticker_stats[k].industry \in AllowList

\* a symbol whose industry differs from a listed one by case alone was dropped
\* while a listed one was persisted
C6_Witness ==
    /\ \E i \in Tasks :
          /\ Done(i) /\ task[i].industry.t = "str"
          /\ ~Listed(task[i].industry)
          /\ CaseFold(task[i].industry.s) \in {CaseFold(a) : a \in AllowList}
          /\ IsNone(task[i].result.v)
    /\ ticker_stats # <<>>

StoreUntouched ==
    /\ ticker_stats = store0.ticker_stats
    /\ industry_aggregations = store0.industry_aggregations

\* C7: while a worker of the run has not completed, and up to the bulk persist,
\* both tables are as they were when the run started.
C7_NoWriteBeforeFanIn ==
    (pc \in {"start", "submit", "pool"} \/ \E i \in Tasks : ~Done(i)) => StoreUntouched

\* a result has been collected while another worker is still running
C7_Witness ==
    /\ tickers_for_processing # <<>>
    /\ \E i \in Tasks : task[i].st \in {"income", "balance", "eod"}
    /\ StoreUntouched

\* C8: after any sequence of runs the industry-aggregate table holds at most
\* one row per industry name.
C8_OneRowPerIndustry ==
    \A a, b \in DOMAIN industry_aggregations :
        industry_aggregations[a].industry = industry_aggregations[b].industry => a = b

Metrics(row) ==
    [avg_pe_ratio |-> row.avg_pe_ratio, avg_revenue_growth |-> row.avg_revenue_growth,
     total_revenue |-> row.total_revenue]

\* the effect the save of an aggregate for name is to have on the table
Upserted(before, after, name, saved) ==
    /\ Metrics(get_by_industry(after, name)) = saved
    /\ IF IsNone(get_by_industry(before, name))
       THEN /\ Len(after) = Len(before) + 1
            /\ SubSeq(after, 1, Len(before)) = before
       ELSE /\ Len(after) = Len(before)
            /\ \A k \in DOMAIN before :
                  IF before[k].industry = name
                  THEN after[k].id = before[k].id /\ after[k].created_at = before[k].created_at
                  ELSE after[k] = before[k]

\* C9: saving an aggregate for an industry that has a row overwrites that row's
\* three metrics and keeps its id and created_at and every other row; without a
\* row it inserts one; get_by_industry then returns the metrics just saved.
C9_SaveOverwrites ==
    [][industry_aggregations' # industry_aggregations =>
          Upserted(industry_aggregations, industry_aggregations', ALLOWED_INDUSTRIES[aggIdx],
              aggregate_industry_metrics(
                  OfIndustry(tickers_for_processing, ALLOWED_INDUSTRIES[aggIdx])))]_vars

\* C10: when run returns, tickers_processed is the number of non-None results,
\* which is the number of records given to bulk_save; industries_processed is
\* the number of aggregate rows written, which is the number of distinct
\* industries collected; it exceeds neither tickers_processed nor the size of
\* the allow-list.
C10_SummaryCounts ==
    pc = "returned" =>
        /\ summary.tickers_processed
               = Cardinality({i \in Tasks : ~IsNone(task[i].result.v)})
        /\ summary.tickers_processed = Len(tickers_for_processing)
        /\ summary.tickers_processed = Len(NewRows(ticker_stats, store0.ticker_stats))
        /\ summary.industries_processed
               = Len(NewRows(industry_aggregations, store0.industry_aggregations))
        /\ summary.industries_processed
               = Cardinality({tickers_for_processing[k].industry :
                                 k \in DOMAIN tickers_for_processing})
        /\ summary.industries_processed <= summary.tickers_processed
        /\ summary.industries_processed <= Len(ALLOWED_INDUSTRIES)

\* three symbols collected out of two industries, one industry skipped
C10_Witness ==
    /\ pc = "returned"
    /\ summary = [tickers_processed |-> 3, industries_processed |-> 2]

Count(q, x) == Cardinality({k \in DOMAIN q : q[k] = x})

NonNull == {i \in Tasks : ~IsNone(task[i].result.v)}

\* the records are the non-None results of the run, each as often as it occurred
ExactlyTheResults(records) ==
    /\ Len(records) = Cardinality(NonNull)
    /\ \A i \in NonNull :
          Count(records, task[i].result.v)
              = Cardinality({j \in NonNull : task[j].result = task[i].result})

\* C11: a run writes ticker rows in one bulk operation only, issued after all
\* workers have completed, and its records are exactly the non-None results
\* of the run; with no record the operation leaves the store as it was.
C11_OneBulkPersist ==
    /\ [](pc \in {"aggregate", "returned"} =>
            /\ Payloads(NewRows(ticker_stats, store0.ticker_stats)) = tickers_for_processing
            /\ ExactlyTheResults(tickers_for_processing))
    /\ [][ticker_stats' # ticker_stats =>
            /\ pc = "pool" /\ pc' = "aggregate"
            /\ \A i \in Tasks : Done(i)
            /\ ticker_stats = store0.ticker_stats]_vars
    /\ [][(pc = "pool" /\ pc' = "aggregate" /\ tickers_for_processing = <<>>) =>
            UNCHANGED <<ticker_stats, industry_aggregations, clock>>]_vars

\* two records persisted in bulk, a third symbol gave None
C11_Witness ==
    /\ pc = "aggregate"
    /\ Len(NewRows(ticker_stats, store0.ticker_stats)) = 2
    /\ \E i \in Tasks : IsNone(task[i].result.v)

WithIndustry(tickers, industry) == SelectSeq(tickers, LAMBDA t : t.industry = industry)

\* the aggregate due for the k-th allow-listed industry: one row, or none
Due(tickers, k) ==
    IF WithIndustry(tickers, ALLOWED_INDUSTRIES[k]) = <<>> THEN <<>>
    ELSE <<AggregateOf(ALLOWED_INDUSTRIES[k],
               aggregate_industry_metrics(WithIndustry(tickers, ALLOWED_INDUSTRIES[k])))>>

\* the aggregates due for the first n allow-listed industries, in their order
RECURSIVE DueUpTo(_, _)
DueUpTo(tickers, n) ==
    IF n = 0 THEN <<>> ELSE DueUpTo(tickers, n - 1) \o Due(tickers, n)

\* C12: for each allow-listed industry with a collected result exactly one
\* aggregate is saved, computed from exactly the collected results of that
\* industry; for the others none is saved and nothing is counted; the saves
\* come after the bulk persist, in the order of the allow-list.
C12_AggregatePerIndustry ==
    /\ [](pc \in {"aggregate", "returned"} =>
            /\ Payloads(NewRows(industry_aggregations, store0.industry_aggregations))
                   = DueUpTo(tickers_for_processing, aggIdx - 1)
            /\ summary.industries_processed
                   = Len(DueUpTo(tickers_for_processing, aggIdx - 1)))
    /\ [](pc = "returned" => aggIdx - 1 = Len(ALLOWED_INDUSTRIES))
    /\ [][industry_aggregations' # industry_aggregations =>
            /\ pc = "aggregate"
            /\ Payloads(NewRows(ticker_stats, store0.ticker_stats)) = tickers_for_processing]_vars

\* tickers of the first and the third industry arrived in the reverse order;
\* two aggregates were saved, the second industry was skipped
C12_Witness ==
    /\ pc = "returned"
    /\ Len(tickers_for_processing) = 2
    /\ tickers_for_processing[1].industry = ALLOWED_INDUSTRIES[2]
    /\ tickers_for_processing[2].industry = ALLOWED_INDUSTRIES[1]
    /\ Len(NewRows(industry_aggregations, store0.industry_aggregations)) = 2
    /\ industry_aggregations[1].industry = ALLOWED_INDUSTRIES[1]

\* C13: an exception of the store during the bulk persist or an aggregate save
\* is not caught in run: it leaves run, no summary is returned and nothing
\* more is done in that invocation.
C13_StoreFailurePropagates ==
    /\ [](pc = "returned" => error = "none")
    /\ [][(error = "none" /\ error' = "SQLAlchemyError") => pc' = "raised"]_vars
    /\ [][pc = "raised" =>
            /\ pc' = "raised"
            /\ UNCHANGED <<summary, ticker_stats, industry_aggregations, error>>]_vars

\* an aggregate save failed after the bulk persist had gone through
C13_Witness ==
    /\ pc = "raised"
    /\ error = "SQLAlchemyError"
    /\ ticker_stats # store0.ticker_stats

Returned(fns) == ret.done /\ call.fn \in fns

\* sum(q): the floats added one after the other, from 0
RECURSIVE SumLeft(_)
SumLeft(q) ==
    IF Len(q) = 0 THEN Zero ELSE FAdd(SumLeft(SubSeq(q, 1, Len(q) - 1)), q[Len(q)])

Present(q) == SelectSeq(q, LAMBDA x : ~IsNone(x))

\* the mean of the values of q that are not None; None if there is none
MeanOfPresent(q) ==
    IF Present(q) = <<>> THEN NoneV
    ELSE FDiv(SumLeft(Present(q)), Num(Len(Present(q))))

Column(tickers, field) == [i \in 1..Len(tickers) |-> tickers[i][field]]

NoneAsZero(q) == [i \in 1..Len(q) |-> IF IsNone(q[i]) THEN Zero ELSE q[i]]

\* C14: aggregate_industry_metrics gives three Nones for the empty list; for a
\* non-empty list total_revenue is the sum of net_income_ttm with None counted
\* as 0, avg_pe_ratio the mean of the pe_ratio values that are not None and
\* None exactly when there is none, avg_revenue_growth likewise.
C14_AggregateReference ==
    Returned({"aggregate_industry_metrics"}) =>
        IF call.tickers = <<>>
        THEN ret.r = Ok([avg_pe_ratio |-> NoneV, avg_revenue_growth |-> NoneV,
                         total_revenue |-> NoneV])
        ELSE ret.r = Ok([avg_pe_ratio |-> MeanOfPresent(Column(call.tickers, "pe_ratio")),
                         avg_revenue_growth |->
                             MeanOfPresent(Column(call.tickers, "revenue_growth_qoq")),
                         total_revenue |->
                             SumLeft(NoneAsZero(Column(call.tickers, "net_income_ttm")))])

\* two tickers, one without P/E and both without net income: the mean is over
\* the one P/E present and total_revenue is 0, not None
C14_Witness ==
    /\ Returned({"aggregate_industry_metrics"})
    /\ Len(call.tickers) = 2
    /\ IsNone(call.tickers[1].pe_ratio) /\ ~IsNone(call.tickers[2].pe_ratio)
    /\ \A i \in 1..2 : IsNone(call.tickers[i].net_income_ttm)
    /\ ret.r.v.avg_pe_ratio = call.tickers[2].pe_ratio
    /\ ret.r.v.total_revenue = Zero

Ratio(fn, a, b) ==
    IF fn = "calculate_revenue_growth" THEN FDiv(FSub(a, b), b) ELSE FDiv(a, b)

\* C15: whatever the two inputs, None included, each of the three ratios
\* returns None exactly when its denominator is None or zero, and the
\* quotient otherwise.
C15_RatioNullIffDenominator ==
    Returned({"calculate_pe_ratio", "calculate_revenue_growth", "calculate_debt_ratio"}) =>
        /\ ret.r.ok
        /\ IsNone(ret.r.v) <=> (IsNone(call.b) \/ IsZero(call.b))
        /\ (~IsNone(call.a) /\ ~IsNone(call.b) /\ ~IsZero(call.b)) =>
               ret.r.v = Ratio(call.fn, call.a, call.b)

\* C16: calculate_net_income_ttm returns None for None and for a list of any
\* length but 4, and for four values their sum, negative ones included.
C16_TtmOfFourQuarters ==
    Returned({"calculate_net_income_ttm"}) =>
        IF IsNone(call.xs) \/ Len(call.xs.items) # 4
        THEN ret.r = Ok(NoneV)
        ELSE ret.r = Ok(SumLeft(call.xs.items))

\* four quarters, a loss among them, summed to a number
C16_Witness ==
    /\ Returned({"calculate_net_income_ttm"})
    /\ ~IsNone(call.xs)
    /\ Len(call.xs.items) = 4
    /\ \E i \in 1..4 : call.xs.items[i].m < 0
    /\ ret.r.ok /\ ~IsNone(ret.r.v)

HasKey(v, key) == v.t = "dict" /\ key \in DOMAIN v.f

\* the value v holds under the keys of path, one inside the other; Absent
\* where a step finds no object or no such key
Absent == [t |-> "absent"]

RECURSIVE At(_, _)
At(v, path) ==
    IF path = <<>> THEN v
    ELSE IF HasKey(v, Head(path)) THEN At(v.f[Head(path)], Tail(path))
    ELSE Absent

\* industry of element 0 of the list under fundamentals.profile.data
IndustryOfFirst(general) ==
    IF At(general, <<"fundamentals", "profile", "data">>).t = "list"
       /\ Len(At(general, <<"fundamentals", "profile", "data">>).items) > 0
       /\ HasKey(At(general, <<"fundamentals", "profile", "data">>).items[1], "industry")
    THEN At(general, <<"fundamentals", "profile", "data">>).items[1].f["industry"]
    ELSE JNull

\* C17: _extract_industry returns the value at
\* fundamentals.profile.data[0].industry; with a key missing, a value of the
\* wrong type or an empty list on the way it returns None and does not raise;
\* no element but the first is looked at.
C17_IndustryOfFirstProfile ==
    Returned({"_extract_industry"}) => ret.r = Ok(IndustryOfFirst(call.general))

\* the second profile names an industry, the first is no object: None
C17_Witness ==
    /\ Returned({"_extract_industry"})
    /\ At(call.general, <<"fundamentals", "profile", "data">>).t = "list"
    /\ Len(At(call.general, <<"fundamentals", "profile", "data">>).items) = 2
    /\ At(call.general, <<"fundamentals", "profile", "data">>).items[1] = JNum(1)
    /\ At(call.general, <<"fundamentals", "profile", "data">>).items[2]
           = JObj("industry" :> JStr("Banks - Diversified"))
    /\ ret.r = Ok(JNull)

\* the keys from the payload down to the record list of each parser
RecordsPath(fn) ==
    CASE fn = "parse_income_statements" ->
             <<"fundamentals", "financials", "income_statement", "data">>
      [] fn = "parse_balance_sheets" ->
             <<"fundamentals", "financials", "balance_sheet_statement", "data">>
      [] fn = "parse_eod_prices" -> <<"stockprice", "data">>

Parsers == {"parse_income_statements", "parse_balance_sheets", "parse_eod_prices"}

\* C18: for a payload object in which a key on the way to the record list is
\* missing or holds null, a non-object or a non-list, each of the three
\* parsers returns a collection without records and does not raise.
C18_ParsersTolerateMalformed ==
    (/\ Returned(Parsers)
     /\ call.api_response.t = "dict"
     /\ At(call.api_response, RecordsPath(call.fn)).t # "list")
        => ret.r = Ok(<<>>)

StatementKinds == {"income_statement", "balance_sheet_statement", "cash_flow_statement"}

ExpectedShape(fn, body) ==
    /\ body.t = "dict"
    /\ fn = "get_symbols" => (HasKey(body, "symbols") /\ body.f["symbols"].t = "list")

\* C20: get_symbols, get_general, get_eod and get_financials with a valid
\* statement raise FiindoClientError when the response's status is not a
\* success status (2xx), when its body is no JSON, or when the parsed body has
\* not the expected shape; otherwise they return the parsed body, get_symbols
\* the list under 'symbols'.
C20_ClientErrorOrBody ==
    (/\ Returned({"get_symbols", "get_general", "get_eod", "get_financials"})
     /\ call.fn = "get_financials" => call.statement \in StatementKinds
     /\ call.response.status # 0)
        => IF \/ call.response.status \notin 200..299
              \/ call.response.body.t = "unparseable"
              \/ ~ExpectedShape(call.fn, call.response.body)
           THEN ~ret.r.ok /\ ret.r.exc = "FiindoClientError"
           ELSE /\ ret.r.ok
                /\ ret.r.v = IF call.fn = "get_symbols"
                             THEN call.response.body.f["symbols"]
                             ELSE call.response.body

\* C21: the worker count the settings yield is at most the hard upper bound
\* of 10, by default (about 8) as well as configured: a configured count above
\* the bound is rejected by validation.
C21_WorkerCountWithinBound ==
    Returned({"Settings"}) =>
        /\ ret.r.ok => ret.r.v <= 10
        /\ ~call.env.set => (ret.r.ok /\ ret.r.v \in 6..10)

\* the measurement an item of a payload carries under name; None for null
Measured(item, name) ==
    IF item.f[name].t = "null" THEN NoneV ELSE item.f[name].x

\* a ratio that is None as soon as one of its inputs is missing
NullableRatio(a, b) ==
    IF IsNone(a) \/ IsNone(b) \/ IsZero(b) THEN NoneV ELSE FDiv(a, b)

NullableGrowth(a, b) ==
    IF IsNone(a) \/ IsNone(b) \/ IsZero(b) THEN NoneV ELSE FDiv(FSub(a, b), b)

NullableTtm(items) ==
    IF Len(items) # 4 \/ \E i \in 1..Len(items) : IsNone(Measured(items[i], "netIncome"))
    THEN NoneV
    ELSE SumLeft([i \in 1..4 |-> Measured(items[i], "netIncome")])

HasYear(balance) == Len(balance) > 0 /\ balance[1].f["period"] = JStr("FY")

LatestClose(eod) == IF eod = <<>> THEN NoneV ELSE Measured(eod[1], "close")

\* C22: for an allow-listed symbol with at least two quarters and an FY
\* balance record _process_single_symbol returns a TickerStats whichever
\* measurements are null and also without any price; a ratio with a missing
\* input is None and the other ratios are computed.
C22_NullsPropagate ==
    (/\ Returned({"_process_single_symbol"})
     /\ Len(call.income) >= 2
     /\ HasYear(call.balance))
        => /\ ret.r.ok
           /\ ~IsNone(ret.r.v)
           /\ ret.r.v.pe_ratio = NullableRatio(LatestClose(call.eod),
                                               Measured(call.income[1], "eps"))
           /\ ret.r.v.revenue_growth_qoq = NullableGrowth(Measured(call.income[1], "revenue"),
                                                          Measured(call.income[2], "revenue"))
           /\ ret.r.v.net_income_ttm = NullableTtm(call.income)
           /\ ret.r.v.debt_ratio = NullableRatio(Measured(call.balance[1], "totalDebt"),
                                                 Measured(call.balance[1], "totalEquity"))

\* C23: for an allow-listed symbol with fewer than two quarters or without an
\* FY balance record _process_single_symbol returns None: no TickerStats, and
\* no exception leaves it.
C23_MissingRecordsGiveNone ==
    (/\ Returned({"_process_single_symbol"})
     /\ Len(call.income) < 2 \/ ~HasYear(call.balance))
        => ret.r = Ok(NoneV)

\* one quarter only, all its measurements and the balance present: None
C23_Witness ==
    /\ Returned({"_process_single_symbol"})
    /\ Len(call.income) = 1
    /\ \A name \in {"eps", "revenue", "netIncome"} : ~IsNone(Measured(call.income[1], name))
    /\ HasYear(call.balance)
    /\ call.eod # <<>>
    /\ ret.r = Ok(NoneV)

\* q holds the elements of p, each as often as p does
SameElements(p, q) ==
    /\ Len(p) = Len(q)
    /\ \A x \in Range(p) : Count(p, x) = Count(q, x)

NonIncreasing(items, field) ==
    \A i, j \in 1..Len(items) : i < j => items[i][field] >= items[j][field]

\* the positions of the quarterly records of items
QuarterAt(items) == {i \in 1..Len(items) : items[i].period \in {"Q1", "Q2", "Q3", "Q4"}}

YearAt(items) == {i \in 1..Len(items) : items[i].period = "FY"}

\* the k-th smallest position of at; items[it] or None if there is none
Nth(items, at, k) ==
    IF Cardinality(at) < k THEN NoneV
    ELSE items[CHOOSE i \in at : Cardinality({j \in at : j < i}) = k - 1]

\* C24: a collection holds the records it was given ordered by date, most
\* recent first, and its accessors read that order: latest_quarter is the
\* first quarterly record, previous_quarter the second, last_n_quarters(n)
\* the first min(n, number of quarters) quarterly records, latest_year the
\* first FY record, latest()/latest_close() the first price; None where
\* there is no such record.
C24_CollectionsNewestFirst ==
    /\ Returned({"IncomeStatementCollection"}) =>
          /\ SameElements(call.items, ret.r.v.items)
          /\ NonIncreasing(ret.r.v.items, "period_end")
          /\ ret.r.v.latest_quarter = Nth(ret.r.v.items, QuarterAt(ret.r.v.items), 1)
          /\ ret.r.v.previous_quarter = Nth(ret.r.v.items, QuarterAt(ret.r.v.items), 2)
          /\ Len(ret.r.v.last_n_quarters)
                 = Min2(call.n, Cardinality(QuarterAt(ret.r.v.items)))
          /\ \A k \in 1..Len(ret.r.v.last_n_quarters) :
                 ret.r.v.last_n_quarters[k] = Nth(ret.r.v.items, QuarterAt(ret.r.v.items), k)
          /\ ret.r.v.latest_year = Nth(ret.r.v.items, YearAt(ret.r.v.items), 1)
    /\ Returned({"EODPriceCollection"}) =>
          /\ SameElements(call.items, ret.r.v.items)
          /\ NonIncreasing(ret.r.v.items, "date")
          /\ ret.r.v.latest = IF call.items = <<>> THEN NoneV ELSE ret.r.v.items[1]
          /\ ret.r.v.latest_close
                 = IF call.items = <<>> THEN NoneV ELSE ret.r.v.items[1].close

\* records given oldest first, the year's record being the newest
C24_Witness ==
    /\ Returned({"IncomeStatementCollection"})
    /\ Len(call.items) = 3
    /\ call.n = 4
    /\ \A i \in 1..3 : call.items[i].period_end = i
    /\ call.items[3].period = "FY"
    /\ ret.r.v.items[1] = call.items[3]
    /\ ret.r.v.latest_quarter = call.items[2]
    /\ ret.r.v.previous_quarter = call.items[1]
    /\ ret.r.v.last_n_quarters = <<call.items[2], call.items[1]>>

\* run is past the fan-in: at or after the bulk persist
PastFanIn == pc \in {"aggregate", "returned"} \/ (pc = "raised" /\ listing.ok)

\* C25: under fair scheduling, with every client and store call coming back,
\* run finishes in the end, returning or raising; past the fan-in every
\* submitted symbol has been processed exactly once: one call per symbol, each
\* completed and collected, each having asked for its general data once.
C25_RunFinishes ==
    /\ <>(pc \in {"returned", "raised"})
    /\ [](PastFanIn =>
             /\ Len(task) = Len(symbols)
             /\ \A i \in Tasks :
                    /\ task[i].st = "done"
                    /\ task[i].collected
                    /\ Count(task[i].calls, "get_general") = 1)

\* three symbols over two workers, all processed, run returned
C25_Witness ==
    /\ pc = "returned"
    /\ Len(symbols) = MaxSymbols
    /\ Len(symbols) > MAX_WORKERS
    /\ \A i \in Tasks : task[i].st = "done" /\ Count(task[i].calls, "get_general") = 1

\* C26: within one run, whatever sequence of symbols the listing returned, no
\* two TickerStats collected for the bulk persist carry the same symbol.
C26_CollectedSymbolsUnique ==
    \A a, b \in DOMAIN tickers_for_processing :
        tickers_for_processing[a].symbol = tickers_for_processing[b].symbol => a = b

RowsOf(table, symbol) == {k \in DOMAIN table : table[k].symbol = symbol}

\* C27: after any sequence of completed runs get_by_symbol(s) returns a row
\* for s written by the most recent run that produced a TickerStats for s,
\* and None when no run produced one.
C27_GetBySymbolLatest ==
    pc = "returned" =>
        \A s \in RunUniverse :
            IF RowsOf(ticker_stats, s) = {}
            THEN IsNone(get_by_symbol(ticker_stats, s))
            ELSE /\ ~IsNone(get_by_symbol(ticker_stats, s))
                 /\ get_by_symbol(ticker_stats, s).symbol = s
                 /\ \A k \in RowsOf(ticker_stats, s) :
                        ticker_stats[k].created_at
                            <= get_by_symbol(ticker_stats, s).created_at

\* the aggregate rows this run has written
RunAggregates == NewRows(industry_aggregations, store0.industry_aggregations)

Contributors(row) == WithIndustry(tickers_for_processing, row.industry)

Column1(rows, field) == [i \in 1..Len(rows) |-> rows[i][field]]

RECURSIVE ContributorCount(_)
ContributorCount(rows) ==
    IF rows = <<>> THEN 0
    ELSE Len(Contributors(Head(rows))) + ContributorCount(Tail(rows))

\* every collected result has its industry in exactly one of the run's
\* aggregate rows, and the rows' contributors add up to tickers_processed
Partitioned ==
    /\ \A k \in DOMAIN tickers_for_processing :
           Cardinality({r \in DOMAIN RunAggregates :
                           RunAggregates[r].industry = tickers_for_processing[k].industry}) = 1
    /\ \A r \in DOMAIN RunAggregates : Contributors(RunAggregates[r]) # <<>>
    /\ ContributorCount(RunAggregates) = summary.tickers_processed

\* C28 as stated: in a completed run the industry filters partition the
\* collected results, the rows' total_revenue add up to the sum of
\* net_income_ttm or 0 over all collected results, and the contributor counts
\* add up to tickers_processed.
C28_RevenueSumsAgree ==
    pc = "returned" =>
        /\ Partitioned
        /\ SumLeft(Column1(RunAggregates, "total_revenue"))
               = SumLeft(NoneAsZero(Column1(tickers_for_processing, "net_income_ttm")))

\* C28: in a completed run the industry filters partition the collected
\* results and the contributor counts add up to tickers_processed; each
\* row's total_revenue is the float sum of net_income_ttm or 0 over its own
\* contributors, in the order they were collected.
C28_PartitionByIndustry ==
    pc = "returned" =>
        /\ Partitioned
        /\ \A r \in DOMAIN RunAggregates :
               RunAggregates[r].total_revenue
                   = SumLeft(NoneAsZero(Column1(Contributors(RunAggregates[r]),
                                                "net_income_ttm")))

\* three results over two industries, collected with the bank between the
\* two software companies
C28_Witness ==
    /\ pc = "returned"
    /\ Len(tickers_for_processing) = 3
    /\ Len(RunAggregates) = 2
    /\ tickers_for_processing[2].industry = "Banks - Diversified"
    /\ tickers_for_processing[1].industry = "Software - Application"
    /\ tickers_for_processing[3].industry = "Software - Application"
    /\ tickers_for_processing[1].net_income_ttm # tickers_for_processing[3].net_income_ttm

\* the run has called get_symbols and the call has come back
ListingAnswered == pc # "start"

\* nothing of the run has happened but the listing call
NothingSubmitted ==
    /\ symbols = <<>>
    /\ task = <<>>
    /\ tickers_for_processing = <<>>
    /\ summary.tickers_processed = 0
    /\ summary.industries_processed = 0

\* C29: when the symbol-listing call fails the run raises that error before
\* any symbol is submitted and before any per-symbol client call, and the
\* store is unchanged; the listing call is made exactly once per run: it is
\* the run's first step, no task exists before it, and the run never comes
\* back to it.
C29_ListingFailureRaisesFirst ==
    /\ [](pc = "start" => NothingSubmitted /\ StoreUntouched)
    /\ []((ListingAnswered /\ ~listing.ok) =>
             /\ pc = "raised"
             /\ error = listing.exc
             /\ NothingSubmitted
             /\ StoreUntouched)
    /\ [][/\ pc = "start" => pc' # "start"
          /\ pc # "start" => pc' # "start" /\ symbols' = symbols /\ listing' = listing]_vars

\* the listing failed and the run has raised
C29_Witness ==
    /\ pc = "raised"
    /\ ~listing.ok
    /\ error = "FiindoClientError"
    /\ task = <<>>

\* run was left by an exception of the store
StoreRaised == pc = "raised" /\ error = "SQLAlchemyError"

NewTickers == NewRows(ticker_stats, store0.ticker_stats)

\* the aggregates the run would save if no store call failed
AllDue == DueUpTo(tickers_for_processing, Len(ALLOWED_INDUSTRIES))

IsPrefix(p, q) == Len(p) <= Len(q) /\ p = SubSeq(q, 1, Len(p))

\* C30: the store calls a run has executed are a prefix of bulk persist,
\* aggregate for allow-list industry 1, 2, 3, and a strict one when a store
\* call raised: the failed call and the calls after it wrote nothing (after a
\* failed bulk persist the run has written no aggregate), and what the earlier
\* calls committed is still in the store.
C30_PersistenceIsPrefix ==
    /\ [](StoreRaised =>
            /\ tickers_for_processing # <<>>
            /\ Payloads(RunAggregates) = DueUpTo(tickers_for_processing, aggIdx - 1)
            /\ IsPrefix(Payloads(RunAggregates), AllDue)
            /\ Len(RunAggregates) < Len(AllDue)
            /\ \/ NewTickers = <<>> /\ RunAggregates = <<>>
               \/ Payloads(NewTickers) = tickers_for_processing)
    /\ [][(pc # "raised" /\ pc' = "raised") =>
            UNCHANGED <<ticker_stats, industry_aggregations>>]_vars
    /\ [][pc = "raised" => UNCHANGED <<pc, ticker_stats, industry_aggregations>>]_vars

\* the bulk persist and the first aggregate are committed, the second
\* aggregate's save failed
C30_Witness ==
    /\ StoreRaised
    /\ Len(NewTickers) >= 2
    /\ Len(RunAggregates) = 1
    /\ Len(AllDue) = 2

====
